---- MODULE Spec2Model ----
(***************************************************************************)
(* Model of scripts/scanner.py: the Fast Modbus bus scanner.  The pure     *)
(* functions (CRC16, command framing, hex formatting, response             *)
(* classification, field extraction) are operators computed the way the    *)
(* code computes them; main() is a state machine over the baud-rate list.  *)
(***************************************************************************)
EXTENDS Integers, Sequences, FiniteSets, TLC

VARIABLES
    pc,              \* position of main(): "for", "start", "loop", "close", "done", "aborted"
    debug,           \* args.debug
    idx,             \* 1-based position of baud_rate in BAUD_RATES
    ser,             \* handle bound to the local `ser` (index of its rate), 0 if unbound
    opened,          \* handles that are open (opened and not closed)
    attempts,        \* baud rates at which serial.Serial(...) was called, in order
    command,         \* last command written in the current session, <<>> if none
    raw,             \* bytes returned by the last ser.read of the current session
    response,        \* value returned by the last send_command of the current session
    ret,             \* outcome of its process_response: "none", "True", "False", "IndexError"
    printed,         \* lines printed by the last step
    device_counter,  \* device_counter[0], the mutable default argument
    rowCount,        \* number of device rows printed so far
    headerCount,     \* number of table headers printed so far
    faults,          \* number of transport errors raised so far
    log,             \* writes and parses of the current session, in order; of a
                     \* session of more than MaxExchanges exchanges, those of
                     \* the first MaxExchanges - 1 and of the last one
    crcOut           \* value returned by the last direct call of calculate_crc

vars == <<pc, debug, idx, ser, opened, attempts, command, raw, response,
          ret, printed, device_counter, rowCount, headerCount, faults, log, crcOut>>

----------------------------------------------------------------------------
(* Bounds of the model *)

MaxDevices == 3     \* device rows per run
MaxFaults == 2      \* transport errors raised by write or read per run
MaxShort == 4       \* length of the arbitrary byte strings given to the codec
MaxPayload == 4     \* payload bytes of the end-scan and device-like frames given to the codec
MaxExchanges == 3   \* exchanges of a session whose events are kept in log
MaxData == 3        \* length of the byte strings given to calculate_crc

----------------------------------------------------------------------------
(* Protocol constants *)

BROADCAST_ADDRESS == 253
EXTENDED_FUNCTION_CODE == 70
START_SCAN_SUBCOMMAND == 1
CONTINUE_SCAN_SUBCOMMAND == 2
END_SCAN_SUBCOMMAND == 4
RESPONSE_SUBCOMMAND == 3

BAUD_RATES == <<115200, 57600, 38400, 19200, 9600, 4800, 2400, 1200>>

----------------------------------------------------------------------------
(* Integer and byte-string primitives of Python used by the code *)

\* a ^ b on non-negative Python ints
RECURSIVE XorInt(_, _)
XorInt(a, b) ==
    IF a = 0 THEN b
    ELSE IF b = 0 THEN a
    ELSE ((a + b) % 2) + 2 * XorInt(a \div 2, b \div 2)

\* the most significant byte first
ToBytesLittle2_Big(v) == <<(v \div 256) % 256, v % 256>>

\* int.to_bytes(2, 'little')
ToBytesLittle2(v) == <<v % 256, (v \div 256) % 256>>

\* int.from_bytes(b, 'little')
RECURSIVE FromBytesLittle(_)
FromBytesLittle(b) ==
    IF Len(b) = 0 THEN 0 ELSE Head(b) + 256 * FromBytesLittle(Tail(b))

\* the bytes taken least significant first
FromBytesBig_Little(b) == FromBytesLittle(b)

\* int.from_bytes(b, 'big')
RECURSIVE FromBytesBig(_)
FromBytesBig(b) ==
    IF Len(b) = 0 THEN 0
    ELSE 256 * FromBytesBig(SubSeq(b, 1, Len(b) - 1)) + b[Len(b)]

\* b[-2:]
SliceLast2(b) == IF Len(b) <= 2 THEN b ELSE SubSeq(b, Len(b) - 1, Len(b))

\* b[:-2]
SliceButLast2(b) == IF Len(b) <= 2 THEN <<>> ELSE SubSeq(b, 1, Len(b) - 2)

HexDigits == <<"0", "1", "2", "3", "4", "5", "6", "7",
               "8", "9", "A", "B", "C", "D", "E", "F">>

\* f"0x{byte:02X}", a string as the sequence of its characters
FormatHex(byte) ==
    <<"0", "x", HexDigits[(byte \div 16) + 1], HexDigits[(byte % 16) + 1]>>

DigitValue(c) == CHOOSE d \in 0..15 : HexDigits[d + 1] = c

RECURSIVE ParseDigits(_, _)
ParseDigits(s, acc) ==
    IF Len(s) = 0 THEN acc ELSE ParseDigits(Tail(s), 16 * acc + DigitValue(Head(s)))

\* int(hex_str, 16): an optional "0x" prefix, then base-16 digits
ParseHex(s) ==
    IF Len(s) >= 2 /\ s[1] = "0" /\ s[2] = "x"
    THEN ParseDigits(SubSeq(s, 3, Len(s)), 0)
    ELSE ParseDigits(s, 0)

----------------------------------------------------------------------------
(* calculate_crc *)

\* a pass that shifts and never applies the polynomial
CrcStep_ShiftOnly(crc) == crc \div 2

\* one pass of the inner loop body, lines 23-27
CrcStep(crc) ==
    IF (crc % 2) # 0 THEN XorInt(crc \div 2, 40961) ELSE crc \div 2

\* the loop of line 22: n passes of the body
RECURSIVE CrcShift(_, _)
CrcShift(crc, n) == IF n = 0 THEN crc ELSE CrcStep(CrcShift(crc, n - 1))

\* the loop of line 20 from byte k of data on; crc is the value of the
\* accumulator when byte k is taken
RECURSIVE CrcFold(_, _, _)
CrcFold(crc, data, k) ==
    IF k > Len(data) THEN crc
    ELSE CHOOSE r \in {CrcFold(c, data, k + 1) :
                          c \in {CrcShift(XorInt(crc, data[k]), 8)}} : TRUE

calculate_crc(data) == CrcFold(65535, data, 1)

create_command(broadcast, function_code, subcommand) ==
    LET cmd == <<broadcast, function_code, subcommand>>
    IN  cmd \o ToBytesLittle2(calculate_crc(cmd))

\* lines 43-44 of send_command: the filter applied to the bytes read
send_command(read) == SelectSeq(read, LAMBDA b : b # 255)

bytes_to_hex_array(byte_array) ==
    LET body == SliceButLast2(byte_array)
    IN  [k \in 1..Len(body) |-> FormatHex(body[k])]

calculate_response_crc(resp) == calculate_crc(SliceButLast2(resp))

----------------------------------------------------------------------------
(* Printed lines.  Every line is a record of the same shape; only a device *)
(* row carries a number, a serial number and an address.                   *)

Line(kind) == [kind |-> kind, n |-> 0, serial |-> 0, address |-> 0]

Row(n, serial_number, modbus_address) ==
    [kind |-> "row", n |-> n, serial |-> serial_number, address |-> modbus_address]

\* result of a call: exc is "none" or the exception that escapes it
Result(r, exc, out, counter) ==
    [ret |-> r, exc |-> exc, out |-> out, counter |-> counter]

\* a size test that lets longer records through
SizeOk_AtLeast(hex_array) == Len(hex_array) >= 8

\* the test of line 61
SizeOk(hex_array) == Len(hex_array) = 8

\* a counter that starts afresh in every call
NextCounter_Fresh(counter) == 0 + 1

\* line 73
NextCounter(counter) == counter + 1

\* a header printed with every row
HeaderDue_EveryRow(n) == n >= 1

\* the test of line 76 on the counter after its increment
HeaderDue(n) == n = 1

parse_and_print_response(hex_array, counter) ==
    IF Len(hex_array) < 3
    THEN Result(FALSE, "IndexError", <<>>, counter)
    ELSE IF ParseHex(hex_array[3]) # RESPONSE_SUBCOMMAND
    THEN Result(FALSE, "none", <<Line("not_response")>>, counter)
    ELSE IF ~SizeOk(hex_array)
    THEN Result(FALSE, "none", <<Line("bad_size")>>, counter)
    ELSE
        LET serial_number_bytes == [k \in 1..4 |-> ParseHex(hex_array[3 + k])]
            serial_number == FromBytesBig(serial_number_bytes)
            modbus_address == ParseHex(hex_array[8])
            n == NextCounter(counter)
            header == IF HeaderDue(n) THEN <<Line("header")>> ELSE <<>>
        IN  Result(FALSE, "none",
                   header \o <<Row(n, serial_number, modbus_address)>>, n)

\* a test of the subcommand byte alone
HeaderTest_SubcommandOnly(resp) ==
    IF Len(resp) < 3 THEN "IndexError"
    ELSE IF resp[3] = RESPONSE_SUBCOMMAND \/ resp[3] = END_SCAN_SUBCOMMAND
         THEN "True" ELSE "False"

\* the condition of lines 100-101, with Python's left-to-right short circuit:
\* "True", "False", or "IndexError" when an index is out of range
HeaderTest(resp) ==
    IF resp[1] # BROADCAST_ADDRESS THEN "False"
    ELSE IF Len(resp) < 2 THEN "IndexError"
    ELSE IF resp[2] # EXTENDED_FUNCTION_CODE THEN "False"
    ELSE IF Len(resp) < 3 THEN "IndexError"
    ELSE IF resp[3] = RESPONSE_SUBCOMMAND \/ resp[3] = END_SCAN_SUBCOMMAND
         THEN "True" ELSE "False"

\* a test that also takes a response too short for a frame as the end
EmptyResponse_Short(resp) == Len(resp) < 5

\* the test of line 86
EmptyResponse(resp) == Len(resp) = 0

\* a comparison that is never made
ChecksumDiffers_Skipped(resp) == FALSE

\* lines 91-94
ChecksumDiffers(resp) ==
    LET received_crc == FromBytesLittle(SliceLast2(resp))
        calculated_crc == calculate_response_crc(resp)
    IN  received_crc # calculated_crc

\* an end of scan recognised only in a frame without payload
EndOfScan_BareFrame(resp) == resp[3] = END_SCAN_SUBCOMMAND /\ Len(resp) = 5

\* the test of line 103
EndOfScan(resp) == resp[3] = END_SCAN_SUBCOMMAND

\* a checksum error that stops the scan of the rate
ChecksumErrorReturn_Stop == TRUE

\* line 97
ChecksumErrorReturn == FALSE

process_response(resp, dbg, counter) ==
    IF EmptyResponse(resp)
    THEN Result(TRUE, "none", <<Line("complete")>>, counter)
    ELSE IF ChecksumDiffers(resp)
    THEN Result(ChecksumErrorReturn, "none",
                <<Line("crc_error"), Line("dump")>>, counter)
    ELSE
        LET h == HeaderTest(resp)
        IN  IF h = "IndexError"
            THEN Result(FALSE, "IndexError", <<>>, counter)
            ELSE IF h = "False"
            THEN Result(FALSE, "none", <<Line("ignored")>>, counter)
            ELSE IF EndOfScan(resp)
            THEN Result(TRUE, "none", <<Line("complete")>>, counter)
            ELSE
                LET hex_array == bytes_to_hex_array(resp)
                    dbgout == IF dbg THEN <<Line("debug")>> ELSE <<>>
                    p == parse_and_print_response(hex_array, counter)
                IN  Result(FALSE, p.exc, dbgout \o p.out, p.counter)

----------------------------------------------------------------------------
(* What the bus can deliver to ser.read *)

\* a frame as a device puts it on the wire: body followed by its CRC, little-endian
Frame(body) == body \o ToBytesLittle2(calculate_crc(body))

DeviceFrame(serial_bytes, address) ==
    Frame(<<BROADCAST_ADDRESS, EXTENDED_FUNCTION_CODE, RESPONSE_SUBCOMMAND>>
          \o serial_bytes \o <<address>>)

EndFrame(payload) ==
    Frame(<<BROADCAST_ADDRESS, EXTENDED_FUNCTION_CODE, END_SCAN_SUBCOMMAND>> \o payload)

BusResponses ==
    { <<>>,                                           \* silence
      <<255, 255>>,                                   \* idle fill only
      <<1, 2>>,                                       \* a fragment
      <<255, 1, 255, 2, 3>>,                          \* a fragment between fill bytes
      <<253, 126, 193>>,                              \* 3 bytes, the last two the CRC of the first
      <<253, 70, 192, 210>>,                          \* 4 bytes, the last two the CRC of the rest
      EndFrame(<<>>),
      EndFrame(<<9>>),
      DeviceFrame(<<0, 0, 1, 44>>, 5),
      DeviceFrame(<<0, 1, 0, 0>>, 7),
      DeviceFrame(<<0, 0, 255, 44>>, 5),              \* a serial byte equal to the fill value
      <<255>> \o DeviceFrame(<<18, 52, 86, 120>>, 1) \o <<255>>,
      [DeviceFrame(<<0, 0, 1, 44>>, 5) EXCEPT ![5] = 9],     \* corrupted in transit
      Frame(<<1, 70, 3, 0, 0, 1, 44, 5>>),            \* not the broadcast address
      Frame(<<253, 70, 7>>),                          \* unknown subcommand
      Frame(<<253, 70, 3, 0, 0, 1>>) }                \* short device record

----------------------------------------------------------------------------
(* main() *)

Count(out, kind) == Cardinality({k \in DOMAIN out : out[k].kind = kind})

RetOf(r) == IF r.exc # "none" THEN r.exc ELSE IF r.ret THEN "True" ELSE "False"

Init ==
    /\ pc = "for"
    /\ debug \in BOOLEAN
    /\ idx = 1
    /\ ser = 0
    /\ opened = {}
    /\ attempts = <<>>
    /\ command = <<>>
    /\ raw = <<>>
    /\ response = <<>>
    /\ ret = "none"
    /\ printed = <<>>
    /\ device_counter = 0
    /\ rowCount = 0
    /\ headerCount = 0
    /\ faults = 0
    /\ log = <<>>
    /\ crcOut = 0

\* a sweep that is given up at the first rate that is left
NextRatePc_Stop == "done"

\* the for statement of line 130 takes the next baud rate, or main returns
NextRatePc == IF idx < Len(BAUD_RATES) THEN "for" ELSE "done"

\* a sweep that goes straight to the last rate once a device was found
NextRateIdx_StopOnFound ==
    IF idx < Len(BAUD_RATES)
    THEN (IF rowCount > 0 THEN Len(BAUD_RATES) ELSE idx + 1)
    ELSE idx

NextRateIdx == IF idx < Len(BAUD_RATES) THEN idx + 1 ELSE idx

\* lines 131-134, serial.Serial(...) succeeds.  Rebinding `ser` drops the last
\* reference to a handle left open by an earlier session; whether the runtime
\* finalises (and so closes) it at that point is up to the runtime.
OpenOk ==
    /\ pc = "for"
    /\ attempts' = Append(attempts, BAUD_RATES[idx])
    /\ \E finalised \in BOOLEAN :
          opened' = (IF finalised THEN opened \ {ser} ELSE opened) \cup {idx}
    /\ ser' = idx
    /\ command' = <<>>
    /\ printed' = <<Line("scanning")>>
    /\ pc' = "start"
    /\ UNCHANGED <<debug, idx, raw, response, ret, device_counter,
                   rowCount, headerCount, faults, log, crcOut>>

\* lines 131-134 and 151-152, serial.Serial(...) raises SerialException
OpenFail ==
    /\ pc = "for"
    /\ attempts' = Append(attempts, BAUD_RATES[idx])
    /\ printed' = <<Line("scanning"), Line("open_error")>>
    /\ pc' = NextRatePc
    /\ idx' = NextRateIdx
    /\ UNCHANGED <<debug, ser, opened, command, raw, response, ret,
                   device_counter, rowCount, headerCount, faults, log, crcOut>>

\* a False from process_response repeats the step that got it
AfterResponse_Repeat(r) ==
    IF r.exc # "none" THEN "aborted" ELSE IF r.ret THEN "close" ELSE pc

\* where main() goes with the result of process_response, lines 141-147: an
\* exception other than SerialException leaves main, True leaves the session,
\* False enters or stays in the while loop
AfterResponse(r) ==
    IF r.exc # "none" THEN "aborted" ELSE IF r.ret THEN "close" ELSE "loop"

\* line 137
start_scan_command ==
    create_command(BROADCAST_ADDRESS, EXTENDED_FUNCTION_CODE, START_SCAN_SUBCOMMAND)

\* a loop that sends the start-scan command again
continue_scan_command_Start ==
    create_command(BROADCAST_ADDRESS, EXTENDED_FUNCTION_CODE, START_SCAN_SUBCOMMAND)

\* line 144
continue_scan_command ==
    create_command(BROADCAST_ADDRESS, EXTENDED_FUNCTION_CODE, CONTINUE_SCAN_SUBCOMMAND)

\* process_response applied to what send_command returns, for every read
\* the bus can deliver, every debug flag and every value of the counter
Exchanged ==
    [read \in BusResponses |->
        [dbg \in BOOLEAN |->
            [counter \in 0..MaxDevices |->
                process_response(send_command(read), dbg, counter)]]]

\* a command handed to ser.write, line 39
WriteEvent(cmd) == [op |-> "write", subcommand |-> cmd[3], ret |-> "none"]

\* a response handed to process_response, with what it returned
ParseEvent(r) == [op |-> "parse", subcommand |-> 0, ret |-> RetOf(r)]

\* an exchange in which the response is processed and nothing is written
ExchangeEvents_NoWrite(cmd, r) == <<ParseEvent(r)>>

\* lines 140-141 and 145-146: send_command writes the command, then
\* process_response is given what it returns
ExchangeEvents(cmd, r) == <<WriteEvent(cmd), ParseEvent(r)>>

\* the log with the events of one more exchange; when it is full they take
\* the place of those of the exchange before
Logged(lg, events) ==
    IF Len(lg) < 2 * MaxExchanges
    THEN lg \o events
    ELSE SubSeq(lg, 1, Len(lg) - Len(events)) \o events

\* send_command followed by process_response, lines 38-44 and 84-116
Exchange(cmd) ==
    \E read \in BusResponses :
        LET resp == send_command(read)
            r == Exchanged[read][debug][device_counter]
        IN  /\ r.counter <= MaxDevices
            /\ log' = Logged(log, ExchangeEvents(cmd, r))
            /\ command' = cmd
            /\ raw' = read
            /\ response' = resp
            /\ ret' = RetOf(r)
            /\ printed' = r.out
            /\ device_counter' = r.counter
            /\ rowCount' = rowCount + Count(r.out, "row")
            /\ headerCount' = headerCount + Count(r.out, "header")
            /\ pc' = AfterResponse(r)
            /\ UNCHANGED <<debug, idx, ser, opened, attempts, faults, crcOut>>

\* ser.write or ser.read raises SerialException inside send_command; the
\* handler of lines 151-152 runs and the for loop goes on, ser.close() is skipped
ExchangeError ==
    /\ faults < MaxFaults
    /\ faults' = faults + 1
    /\ log' = <<>>
    /\ command' = <<>>
    /\ raw' = <<>>
    /\ response' = <<>>
    /\ ret' = "none"
    /\ printed' = <<Line("open_error")>>
    /\ pc' = NextRatePc
    /\ idx' = NextRateIdx
    /\ UNCHANGED <<debug, ser, opened, attempts,
                   device_counter, rowCount, headerCount, crcOut>>

\* lines 137-141
StartScan == pc = "start" /\ Exchange(start_scan_command)

StartScanError == pc = "start" /\ ExchangeError

\* lines 143-147
ContinueScan == pc = "loop" /\ Exchange(continue_scan_command)

ContinueScanError == pc = "loop" /\ ExchangeError

\* line 150
Close ==
    /\ pc = "close"
    /\ opened' = opened \ {ser}
    /\ log' = <<>>
    /\ command' = <<>>
    /\ raw' = <<>>
    /\ response' = <<>>
    /\ ret' = "none"
    /\ printed' = <<>>
    /\ pc' = NextRatePc
    /\ idx' = NextRateIdx
    /\ UNCHANGED <<debug, ser, attempts,
                   device_counter, rowCount, headerCount, faults, crcOut>>

Next ==
    \/ OpenOk
    \/ OpenFail
    \/ StartScan
    \/ StartScanError
    \/ ContinueScan
    \/ ContinueScanError
    \/ Close

Spec == Init /\ [][Next]_vars

\* main() always takes its next step
FairSpec == Spec /\ WF_vars(Next)

----------------------------------------------------------------------------
(* The codec alone: one read is filtered by send_command and classified by *)
(* process_response.                                                       *)

SeqsUpTo(S, n) == UNION {[1..k -> S] : k \in 0..n}

\* frames a device sends: end-scan, and device-found for a few serial
\* numbers and addresses
ValidFrames ==
    { EndFrame(<<>>),
      DeviceFrame(<<0, 0, 1, 44>>, 5),
      DeviceFrame(<<0, 0, 1, 44>>, 125),
      DeviceFrame(<<0, 0, 255, 44>>, 5) }

\* f with byte i replaced by v
Replace(f, i, v) == [f EXCEPT ![i] = v]

\* every frame of ValidFrames with exactly one byte replaced by another value
Corruptions ==
    UNION {{Replace(f, i, v) : i \in 1..Len(f), v \in 0..255} : f \in ValidFrames}
    \ ValidFrames

ShortReads == SeqsUpTo({253, 70, 3, 4, 255}, MaxShort)

\* reads of 3 and 4 bytes whose last two bytes are the CRC of the bytes before
\* them: the only ones that start with 0xFD and with 0xFD 0x46, and some that
\* have 0x03 or 0x04 as third byte
ShortValid ==
    { <<253, 126, 193>>, <<253, 70, 192, 210>>,
      <<250, 63, 3>>, <<240, 191, 4>>, <<4, 0, 3, 112>>, <<4, 12, 3, 117>> }

EndFrames == {EndFrame(p) : p \in SeqsUpTo({0, 9, 3}, MaxPayload)}

DeviceLikeFrames ==
    {Frame(<<BROADCAST_ADDRESS, EXTENDED_FUNCTION_CODE, RESPONSE_SUBCOMMAND>> \o p) :
        p \in SeqsUpTo({1, 44}, MaxPayload + 3)}

DeviceFrames ==
    {DeviceFrame(sn, a) : sn \in [1..4 -> {0, 1, 44, 127}], a \in {5, 247}}

CodecReads ==
    BusResponses \cup ShortReads \cup ShortValid \cup EndFrames \cup DeviceLikeFrames
    \cup DeviceFrames

CodecInit ==
    /\ pc = "recv"
    /\ \/ raw \in CodecReads /\ debug \in BOOLEAN /\ device_counter \in {0, 1}
       \/ raw \in Corruptions /\ debug = FALSE /\ device_counter = 0
    /\ idx = 1
    /\ ser = 1
    /\ opened = {1}
    /\ attempts = <<BAUD_RATES[1]>>
    /\ command = <<>>
    /\ response = <<>>
    /\ ret = "none"
    /\ printed = <<>>
    /\ rowCount = device_counter
    /\ headerCount = IF device_counter > 0 THEN 1 ELSE 0
    /\ faults = 0
    /\ log = <<>>
    /\ crcOut = 0

\* lines 43-44 and 84-116 on the bytes read
Classify ==
    /\ pc = "recv"
    /\ LET resp == send_command(raw)
           r == process_response(resp, debug, device_counter)
       IN  /\ response' = resp
           /\ ret' = RetOf(r)
           /\ printed' = r.out
           /\ device_counter' = r.counter
           /\ rowCount' = rowCount + Count(r.out, "row")
           /\ headerCount' = headerCount + Count(r.out, "header")
    /\ pc' = "classified"
    /\ UNCHANGED <<debug, idx, ser, opened, attempts, command, raw, faults,
                   log, crcOut>>

CodecNext == Classify

SpecCodec == CodecInit /\ [][CodecNext]_vars

----------------------------------------------------------------------------
(* The framing functions alone: calculate_crc on a byte string, and         *)
(* create_command on three bytes followed by the checksum test of          *)
(* process_response on the command built.                                  *)

ByteSample == {0, 1, 70, 128, 253, 255}

\* the ASCII digits "123456789", the usual check string of CRC catalogues
CheckString == <<49, 50, 51, 52, 53, 54, 55, 56, 57>>

CrcInputs == SeqsUpTo(ByteSample, MaxData) \cup {<<1, 2>>, <<2, 1>>, CheckString}

FramingInit ==
    /\ pc = "data"
    /\ raw \in CrcInputs
    /\ debug = FALSE
    /\ idx = 1
    /\ ser = 0
    /\ opened = {}
    /\ attempts = <<>>
    /\ command = <<>>
    /\ response = <<>>
    /\ ret = "none"
    /\ printed = <<>>
    /\ device_counter = 0
    /\ rowCount = 0
    /\ headerCount = 0
    /\ faults = 0
    /\ log = <<>>
    /\ crcOut = 0

\* calculate_crc(data), lines 18-28
Checksum ==
    /\ pc = "data"
    /\ crcOut' = calculate_crc(raw)
    /\ pc' = "crc"
    /\ UNCHANGED <<debug, idx, ser, opened, attempts, command, raw, response,
                   ret, printed, device_counter, rowCount, headerCount,
                   faults, log>>

\* create_command(broadcast, function_code, subcommand), lines 31-35
CreateCommand ==
    /\ pc = "data"
    /\ Len(raw) = 3
    /\ command' = create_command(raw[1], raw[2], raw[3])
    /\ pc' = "command"
    /\ UNCHANGED <<debug, idx, ser, opened, attempts, raw, response, ret,
                   printed, device_counter, rowCount, headerCount, faults,
                   log, crcOut>>

\* the command taken as a response: lines 91-94 of process_response
ValidateCommand ==
    /\ pc = "command"
    /\ response' = command
    /\ crcOut' = calculate_response_crc(command)
    /\ ret' = IF ChecksumDiffers(command) THEN "False" ELSE "True"
    /\ pc' = "validated"
    /\ UNCHANGED <<debug, idx, ser, opened, attempts, command, raw, printed,
                   device_counter, rowCount, headerCount, faults, log>>

FramingNext ==
    \/ Checksum
    \/ CreateCommand
    \/ ValidateCommand

SpecFraming == FramingInit /\ [][FramingNext]_vars

----------------------------------------------------------------------------
(* Properties *)

HasRow(out) == Count(out, "row") > 0

\* the last two bytes of resp, little-endian, are the CRC of the bytes before them
CrcValid(resp) ==
    /\ Len(resp) >= 2
    /\ resp[Len(resp) - 1] + 256 * resp[Len(resp)]
         = calculate_crc(SubSeq(resp, 1, Len(resp) - 2))

\* resp starts with 0xFD 0x46 and the given third byte
HasHeader(resp, third) ==
    /\ Len(resp) >= 3
    /\ resp[1] = 253
    /\ resp[2] = 70
    /\ resp[3] = third

C2_AlwaysTerminates == <>(pc = "done")

\* C2 amended: main() eventually returns unless some session stays in its
\* continue-scan loop forever.
C2_TerminatesUnlessLooping == <>(pc = "done") \/ <>[](pc = "loop")

\* a finished run one of whose sessions went through the continue-scan loop
C2_Witness ==
    /\ pc = "done"
    /\ headerCount = 1
    /\ faults = 0

\* C3 as stated: when main() is about to try a baud rate, or has returned, no
\* handle of an earlier session is still open.
C3_ClosedOnEveryExit == pc \in {"for", "done"} => opened = {}

\* C4: the device counter equals the number of rows printed so far, a step
\* prints at most one row, and a row printed carries that number; the counter
\* is therefore 1, 2, 3, ... over the rows of the whole run.
C4_SequenceNumbers ==
    /\ device_counter = rowCount
    /\ Count(printed, "row") <= 1
    /\ \A k \in DOMAIN printed :
          printed[k].kind = "row" => printed[k].n = rowCount

\* the third row of a run is printed at the third baud rate
C4_Witness ==
    /\ idx = 3
    /\ \E k \in DOMAIN printed : printed[k].kind = "row" /\ printed[k].n = 3

\* C5: a step that prints a device row or changes the device counter was
\* given a response with a correct trailing CRC and the header 0xFD 0x46 0x03.
C5_RowOnlyForValidFrame ==
    [][(HasRow(printed') \/ device_counter' # device_counter)
        => (CrcValid(response') /\ HasHeader(response', 3))]_vars

\* a device row was printed for a classified read
C5_Witness ==
    /\ pc = "classified"
    /\ HasRow(printed)
    /\ device_counter = 2

\* C6 as stated: a frame of ValidFrames with exactly one byte replaced by
\* another value takes the checksum-error branch.
C6_CorruptionIsChecksumError ==
    (pc = "classified" /\ raw \in Corruptions)
        => (ret = "False" /\ printed = <<Line("crc_error"), Line("dump")>>)

\* C7 as stated: a response with a correct CRC and the header 0xFD 0x46 0x03
\* gives a row exactly if it has 8 bytes, CRC included.
C7_RowIffLen8 ==
    (pc = "classified" /\ CrcValid(response) /\ HasHeader(response, 3))
        => (HasRow(printed) <=> Len(response) = 8)

\* C7 amended: such a response gives a row exactly if it has 10 bytes, CRC
\* included (8 without the CRC); every other length prints the size error
\* and no row.
C7_RowIffLen10 ==
    (pc = "classified" /\ CrcValid(response) /\ HasHeader(response, 3))
        => /\ HasRow(printed) <=> Len(response) = 10
           /\ Len(response) # 10 =>
                 /\ Count(printed, "bad_size") = 1
                 /\ ret = "False"

\* a response of 8 bytes with a correct CRC and the device header, and no row
C7_Witness ==
    /\ pc = "classified"
    /\ CrcValid(response)
    /\ HasHeader(response, 3)
    /\ Len(response) = 8
    /\ ~HasRow(printed)

\* C8: a row carries as serial number the big-endian value of bytes 4..7 of
\* the response and as address its byte 8; serial bytes 0x00 0x00 0x01 0x2C
\* with address byte 0x05 are reported as 300 and 5.
C8_SerialBigEndian ==
    \A k \in DOMAIN printed :
        printed[k].kind = "row" =>
            /\ Len(response) = 10
            /\ printed[k].serial = response[4] * 16777216 + response[5] * 65536
                                     + response[6] * 256 + response[7]
            /\ printed[k].serial >= 0
            /\ printed[k].address = response[8]
            /\ (SubSeq(response, 4, 8) = <<0, 0, 1, 44, 5>>
                  => printed[k].serial = 300 /\ printed[k].address = 5)

\* the row of serial bytes 0x00 0x00 0x01 0x2C and address byte 0x05
C8_Witness ==
    /\ pc = "classified"
    /\ SubSeq(raw, 4, 8) = <<0, 0, 1, 44, 5>>
    /\ \E k \in DOMAIN printed :
          printed[k].kind = "row" /\ printed[k].serial = 300 /\ printed[k].address = 5

\* C9 as stated: the session ends on emptiness exactly when the bytes read are
\* empty, and a non-empty read with fewer than 5 bytes left after the filter
\* keeps the session scanning.
C9_CompleteIffRawEmpty ==
    ret # "none" =>
        /\ (ret = "True" /\ Len(response) = 0) <=> raw = <<>>
        /\ (raw # <<>> /\ Len(response) < 5) => pc = "loop"

\* C9 amended: the session ends on emptiness exactly when no bytes are left
\* after the filter (an empty read, or a read of 0xFF bytes only); a read with
\* 1 to 4 bytes left after the filter prints no row and keeps the session
\* scanning.
C9_CompleteIffFilteredEmpty ==
    ret # "none" =>
        /\ Len(response) = 0 => (ret = "True" /\ pc = "close")
        /\ Len(response) \in 1..4 =>
              (ret = "False" /\ pc = "loop" /\ ~HasRow(printed))

\* a read of fill bytes only has ended the session
C9_Witness ==
    /\ raw = <<255, 255>>
    /\ response = <<>>
    /\ pc = "close"

\* C10: a response of 5 bytes or more with a correct CRC and the header
\* 0xFD 0x46 0x04 makes process_response return True and print no row,
\* whatever its length.
C10_EndScanAnyLength ==
    (pc = "classified" /\ Len(response) >= 5 /\ CrcValid(response)
        /\ HasHeader(response, 4))
        => (ret = "True" /\ ~HasRow(printed))

\* an end-scan frame with three payload bytes was classified
C10_Witness ==
    /\ pc = "classified"
    /\ Len(response) = 8
    /\ CrcValid(response)
    /\ HasHeader(response, 4)
    /\ ret = "True"

----------------------------------------------------------------------------
(* The reference CRC16/MODBUS: the register starts at 0xFFFF and takes the  *)
(* message one bit at a time, least significant bit of each byte first;    *)
(* the bit shifted out, added modulo 2 to the message bit, decides whether *)
(* the reflected polynomial 0xA001 is applied.                             *)

\* v with the bit of weight w inverted
Toggle(v, w) == IF (v \div w) % 2 = 1 THEN v - w ELSE v + w

RefStep(reg, bit) ==
    LET shifted == reg \div 2
    IN  IF (reg + bit) % 2 = 1
        THEN Toggle(Toggle(Toggle(shifted, 32768), 8192), 1)
        ELSE shifted

RECURSIVE RefByte(_, _, _)
RefByte(reg, byte, n) ==
    IF n = 0 THEN reg
    ELSE RefStep(RefByte(reg, byte, n - 1), (byte \div (2 ^ (n - 1))) % 2)

RECURSIVE RefFold(_, _, _)
RefFold(reg, data, k) ==
    IF k > Len(data) THEN reg
    ELSE CHOOSE r \in {RefFold(c, data, k + 1) :
                          c \in {RefByte(reg, data[k], 8)}} : TRUE

CRC16_MODBUS(data) == RefFold(65535, data, 1)

\* C11: create_command returns 5 bytes, its three arguments in order and
\* then the CRC16/MODBUS of the three, low byte first; taken as a response
\* the command passes the checksum test: the little-endian value of its last
\* two bytes is what calculate_response_crc returns for it.
C11_CommandRoundTrip ==
    /\ pc \in {"command", "validated"} =>
          /\ Len(command) = 5
          /\ SubSeq(command, 1, 3) = raw
          /\ command[4] = CRC16_MODBUS(raw) % 256
          /\ command[5] = CRC16_MODBUS(raw) \div 256
    /\ pc = "validated" =>
          /\ crcOut = command[4] + 256 * command[5]
          /\ ret = "True"

\* the start-scan command FD 46 01 13 90 was built and validated
C11_Witness ==
    /\ pc = "validated"
    /\ raw = <<253, 70, 1>>
    /\ command = <<253, 70, 1, 19, 144>>
    /\ ret = "True"

\* C12: a step of main() at the head of a session either opens the transport
\* and enters the session, or reports the failure of the open; in the second
\* case nothing is written and nothing is parsed at that rate, no handle is
\* opened, the device counter and the rows are unchanged, and main() is at
\* the next baud rate of the list, or has returned after the last one.
C12_OpenFailureSkipsRate ==
    [][pc = "for" =>
          \/ /\ pc' = "start"
             /\ idx \in opened'
             /\ Count(printed', "open_error") = 0
          \/ /\ Count(printed', "open_error") = 1
             /\ log = <<>> /\ log' = <<>>
             /\ command' = <<>> /\ response' = response /\ ret' = ret
             /\ opened' = opened
             /\ device_counter' = device_counter
             /\ rowCount' = rowCount
             /\ attempts' = Append(attempts, BAUD_RATES[idx])
             /\ IF idx < Len(BAUD_RATES)
                THEN pc' = "for" /\ idx' = idx + 1
                ELSE pc' = "done"]_vars

\* the open at 57600 has failed after a device was found at 115200, and
\* main() is at 38400
C12_Witness ==
    /\ printed = <<Line("scanning"), Line("open_error")>>
    /\ attempts = <<115200, 57600>>
    /\ pc = "for"
    /\ idx = 3
    /\ rowCount >= 1

\* C13: process_response returns True or False for every read, also one
\* that leaves 1 to 4 bytes after the filter, and never raises; the same
\* holds when it is given a read of at most 4 bytes as it is, fill bytes
\* included.
C13_NoIndexError ==
    pc = "classified" =>
        /\ ret \in {"True", "False"}
        /\ Len(raw) <= 4 =>
              process_response(raw, debug, device_counter).exc = "none"

\* a response of 3 bytes with a correct CRC and 0x03 as third byte was ignored
C13_Witness ==
    /\ pc = "classified"
    /\ response = <<250, 63, 3>>
    /\ CrcValid(response)
    /\ ret = "False"
    /\ printed = <<Line("ignored")>>

\* C15: in a session the first command written is start-scan (subcommand
\* 0x01) and every later one is continue-scan (0x02), so start-scan is
\* written once and end-scan (0x04) never; a response for which
\* process_response returned True is the last event of its session, which is
\* then at its close; the command last written is FD 46 01 13 90 after one
\* exchange and FD 46 02 53 91 after more.
C15_CommandSequence ==
    /\ \A k \in DOMAIN log :
          /\ log[k].op = "write" => log[k].subcommand = (IF k = 1 THEN 1 ELSE 2)
          /\ (log[k].op = "parse" /\ log[k].ret = "True") =>
                (k = Len(log) /\ pc = "close")
    /\ pc \in {"loop", "close"} =>
          /\ Len(log) >= 2
          /\ log[1].op = "write"
          /\ command = (IF Len(log) = 2 THEN <<253, 70, 1, 19, 144>>
                                         ELSE <<253, 70, 2, 83, 145>>)
    /\ pc \in {"for", "start", "done"} => log = <<>>

\* a session of three exchanges or more is at its close
C15_Witness ==
    /\ pc = "close"
    /\ Len(log) = 6
    /\ log[1].subcommand = 1
    /\ log[5].subcommand = 2
    /\ log[6].ret = "True"

\* C16: a session is at its close only after process_response returned True
\* for an empty response or for a frame with a correct CRC and the header
\* 0xFD 0x46 0x04; after any other result (checksum error, ignored frame,
\* wrong size, device row) it returned False and the session is in its loop,
\* whose next step is a continue-scan exchange, or a transport error raised
\* by that exchange.
C16_EndedOnlyOnTerminal ==
    [][/\ pc' = "close" =>
             /\ ret' = "True"
             /\ Count(printed', "complete") = 1
             /\ \/ response' = <<>>
                \/ CrcValid(response') /\ HasHeader(response', 4)
       /\ (ret' # "none" /\ Count(printed', "complete") = 0) =>
             (ret' = "False" /\ pc' = "loop")
       /\ ret = "False" =>
             \/ /\ faults' = faults
                /\ Len(log') >= 4
                /\ Len(log') >= Len(log)
                /\ log'[Len(log') - 1].op = "write"
                /\ log'[Len(log') - 1].subcommand = 2
                /\ log'[Len(log')].op = "parse"
                /\ log'[Len(log')].ret = ret'
                /\ command' = <<253, 70, 2, 83, 145>>
             \/ /\ faults' = faults + 1
                /\ pc' \in {"for", "done"}]_vars

\* the answer to start-scan failed the checksum test and the session is in
\* its loop
C16_Witness ==
    /\ pc = "loop"
    /\ Len(log) = 2
    /\ command = <<253, 70, 1, 19, 144>>
    /\ printed = <<Line("crc_error"), Line("dump")>>
    /\ ret = "False"

\* C17: the header has been printed once if a row has been printed in the
\* run and never otherwise; a header is printed directly before a row, and
\* that row is row 1.
C17_HeaderOnce ==
    /\ headerCount = (IF rowCount > 0 THEN 1 ELSE 0)
    /\ \A k \in DOMAIN printed :
          printed[k].kind = "header" =>
              /\ k < Len(printed)
              /\ printed[k + 1].kind = "row"
              /\ printed[k + 1].n = 1
    /\ \A k \in DOMAIN printed :
          (printed[k].kind = "row" /\ printed[k].n = 1) =>
              (k > 1 /\ printed[k - 1].kind = "header")

\* the second row of the run is printed at a later baud rate, without header
C17_Witness ==
    /\ idx >= 2
    /\ rowCount = 2
    /\ headerCount = 1
    /\ HasRow(printed)
    /\ Count(printed, "header") = 0

\* C18 as stated: at most one handle is open at any point of the run.
C18_AtMostOneOpen == Cardinality(opened) <= 1

\* C19: in the events of a session writes and parses alternate, starting
\* with a write: every parse directly follows a write, and after a parse that
\* returned False the next event is the write of continue-scan.
C19_WriteParseAlternate ==
    /\ Len(log) % 2 = 0
    /\ \A k \in DOMAIN log :
          /\ log[k].op = (IF k % 2 = 1 THEN "write" ELSE "parse")
          /\ (log[k].op = "parse" /\ k < Len(log)) =>
                (log[k].ret = "False" /\ log[k + 1].op = "write"
                    /\ log[k + 1].subcommand = 2)

\* the answer to start-scan was not accepted, and a second exchange has
\* written continue-scan and parsed its answer
C19_Witness ==
    /\ pc = "loop"
    /\ Len(log) = 4
    /\ log[2].ret = "False"
    /\ log[3].op = "write"
    /\ log[4].op = "parse"
    /\ printed = <<Line("bad_size")>>

\* C20 as stated: a read that is a well-formed device-found frame (10 bytes,
\* header 0xFD 0x46 0x03, correct CRC) gives exactly one row, with the
\* big-endian value of its bytes 4..7 as serial number and its byte 8 as
\* address.
C20_DenoiseKeepsDevices ==
    (pc = "classified" /\ Len(raw) = 10 /\ CrcValid(raw) /\ HasHeader(raw, 3))
        => /\ Count(printed, "row") = 1
           /\ \E k \in DOMAIN printed :
                 /\ printed[k].kind = "row"
                 /\ printed[k].serial = raw[4] * 16777216 + raw[5] * 65536
                                          + raw[6] * 256 + raw[7]
                 /\ printed[k].address = raw[8]

\* C14: calculate_crc returns the reference CRC16/MODBUS of its argument, a
\* value in 0..0xFFFF; the empty string gives 0xFFFF, the check string
\* "123456789" gives 0x4B37, and 01 02 and 02 01 give different values.
C14_CrcIsModbus ==
    pc = "crc" =>
        /\ crcOut = CRC16_MODBUS(raw)
        /\ crcOut \in 0..65535
        /\ raw = <<>> => crcOut = 65535
        /\ raw = CheckString => crcOut = 19255
        /\ raw = <<1, 2>> => crcOut = 57729
        /\ raw = <<2, 1>> => crcOut = 4289

\* the checksum of the check string was computed
C14_Witness ==
    /\ pc = "crc"
    /\ raw = CheckString
    /\ crcOut = 19255

====
